---- MODULE Spec2Model ----
(***************************************************************************)
(* The programs of the repository, each with its own variables, initial    *)
(* state and steps; a program's steps leave the other programs alone.      *)
(*                                                                         *)
(* Genetic-algorithm art evolver (src/python_demo_ab1cc1.py).              *)
(*                                                                         *)
(* Python lists are objects: `heap` maps the id of every live gene list to *)
(* its content, a genome is referred to by its id and a population is a    *)
(* sequence of ids.  A copy allocates a new id; a write through a          *)
(* reference changes the heap cell of the object referred to; an object    *)
(* that no variable refers to any more is freed (reference counting).      *)
(*                                                                         *)
(* The canvas, the colour range, the mutation step, the shape counts and   *)
(* the number of generations are scaled down; the scaled values keep the   *)
(* order of the source's: MaxColor <= IMAGE_HEIGHT <= IMAGE_WIDTH.         *)
(* random.random() is drawn in tenths, MUTATION_RATE is in tenths, and a   *)
(* fitness is the source's value times IMAGE_WIDTH * IMAGE_HEIGHT, which   *)
(* keeps it an integer and keeps every comparison.                         *)
(***************************************************************************)
EXTENDS Integers, Sequences, FiniteSets, TLC

VARIABLES
    heap,             \* id of a live gene list -> its content
    MUTATION_RATE,    \* the configured rate, in tenths
    strict,           \* TRUE: the installed Pillow rejects x1 < x0 and y1 < y0
    pc,               \* control position
    population,       \* main's `population`: sequence of genome ids
    generation,       \* number of completed calls of evolve_population
    fitnesses,        \* evolve_population's `fitnesses`
    next_generation,  \* evolve_population's `next_generation`
    parent1, parent2, \* the parents select_parents returned
    shapes_from,      \* crossover's <<shapes_from_p1, shapes_from_p2>>
    child,            \* the list crossover returned
    mutated,          \* the list mutate returned
    canvas,           \* the configured <<IMAGE_WIDTH, IMAGE_HEIGHT>>
    evaluations,      \* number of populations evaluated so far
    sample,           \* select_parents' `selected_indices`
    final_fitnesses,  \* main's `final_fitnesses`
    best_artwork_index, \* main's `best_artwork_index`
    output,           \* the images written to final_abstract_art.png, in order
    NUM_INITIAL_SHAPES, \* the configured size of the initial population
    \* src/python_learning_fb30e5.py
    pet_state,        \* the pet's mood, hunger and energy
    known_commands,   \* command -> response
    game,             \* game_loop's position
    pet_typed,        \* the lines the user typed in the last turn
    \* src/python_tutorial_179b18.py
    chatbot_knowledge, \* lowercased input -> response
    chat,             \* start_chat's position
    bot_printed,      \* the lines the bot printed for the last message
    chat_typed,       \* the lines the user typed in the last round
    \* src/python_example_ea6d31.py
    x_data, y_data,   \* the plotted points
    received,         \* every reading so far, in arrival order
    \* src/python_demo_a3bb5e.py
    spending_data,    \* category -> total
    expense_entry, category_entry, \* the text of the two entry fields
    summary_text,     \* the text of the summary label
    \* src/challenges/challenge_2026_01_14_1768536855841.py
    data,             \* the list given to process_data
    result,           \* the list process_data returned
    calls             \* number of calls of process_data so far

\* the variables of each program
artVars == <<heap, MUTATION_RATE, strict, pc, population, generation, fitnesses,
             next_generation, parent1, parent2, shapes_from, child, mutated,
             canvas, evaluations, sample, final_fitnesses,
             best_artwork_index, output, NUM_INITIAL_SHAPES>>
petVars == <<pet_state, known_commands, game, pet_typed>>
chatVars == <<chatbot_knowledge, chat, bot_printed, chat_typed>>
plotVars == <<x_data, y_data, received>>
spendVars == <<spending_data, expense_entry, category_entry, summary_text>>
dataVars == <<data, result, calls>>

vars == <<artVars, petVars, chatVars, plotVars, spendVars, dataVars>>

\* what a step of the art evolver never writes: its configuration and the
\* other programs
artConfig == <<MUTATION_RATE, strict, NUM_INITIAL_SHAPES>>
otherPrograms == <<petVars, chatVars, plotVars, spendVars, dataVars>>

\* what the steps of evolve_population's loop leave alone
finalVars == <<canvas, evaluations, sample, final_fitnesses,
               best_artwork_index, output>>

----------------------------------------------------------------------------
(* Configuration (scaled) and bounds of the model *)

IMAGE_WIDTH == 2
IMAGE_HEIGHT == 1
MaxColor == 1
MaxChange == 1
NUM_GENERATIONS == 1
MaxPopulation == 5
MaxDraws == 1
MutableGenes == 4
MinInitialShapes == 1
MaxInitialShapes == 1
MaxFinalPopulation == 3
MaxSelectPopulation == 6
MaxCreatePopulation == 2
MAX_DATA_POINTS == 3
MaxReading == 1
MaxSamples == 7
MaxTotal == 1000
MaxItem == 2
MaxLen == 4
ELITISM_COUNT == 2
tournament_size == 5
GenesPerShape == 10
MUTATION_RATE_CONFIG == 1

\* the values random.random() is drawn from, in tenths: 0.0 and 0.9
RandomDraws == {0, 9}
\* the rates a run is configured with, in tenths: 0.0, 0.1 and 1.0
Rates == {0, MUTATION_RATE_CONFIG, 10}

Max(a, b) == IF a >= b THEN a ELSE b
Min(a, b) == IF a <= b THEN a ELSE b
Abs(a) == IF a >= 0 THEN a ELSE -a

\* gene_set[i], with the source's 0-based index
At(g, i) == g[i + 1]
\* gene_set[:n]
Prefix(g, n) == SubSeq(g, 1, Min(n, Len(g)))
\* len(gene_set) // 10
NumShapes(g) == Len(g) \div GenesPerShape
\* gene_set[i : i + 10] for the s-th shape, s = 1, 2, ...
Shape(g, s) == SubSeq(g, GenesPerShape * (s - 1) + 1, Min(GenesPerShape * s, Len(g)))

----------------------------------------------------------------------------
(* The heap *)

\* the id a new list gets: the lowest free one
NewId(h) == CHOOSE i \in 1..(Cardinality(DOMAIN h) + 1) : i \notin DOMAIN h

Alloc(h, content) == [i \in DOMAIN h \cup {NewId(h)} |->
                        IF i \in DOMAIN h THEN h[i] ELSE content]

\* drop the lists nothing refers to
Collect(h, roots) == [i \in DOMAIN h \cap roots |-> h[i]]

Range(s) == {s[i] : i \in DOMAIN s}

----------------------------------------------------------------------------
(* create_random_gene *)

ColourDraws == 0..MaxColor

create_random_gene(x0, y0, x1, y1, fill_color, outline_color) ==
    <<x0, y0, x1, y1>> \o fill_color \o outline_color

\* random.randint(a, b) raises ValueError for an empty range
RandintFails(a, b) == a > b

\* create_random_gene raises on a canvas c = <<width, height>>: lines 28, 29
\* (x0..width and y0..height of lines 30, 31 are never empty)
CreateGeneFails(c) == RandintFails(0, c[1]) \/ RandintFails(0, c[2])

\* a slip: x1 and y1 drawn from the whole canvas
RandomGenesUnordered(c) ==
    UNION {
        {create_random_gene(x0, y0, x1, y1, <<r1, g1, b1>>, <<r2, g2, b2>>) :
            x1 \in 0..c[1], y1 \in 0..c[2],
            r1 \in ColourDraws, g1 \in ColourDraws, b1 \in ColourDraws,
            r2 \in ColourDraws, g2 \in ColourDraws, b2 \in ColourDraws} :
        x0 \in 0..c[1], y0 \in 0..c[2]}

\* every list create_random_gene can return on a canvas c: x1 is drawn from
\* x0..width and y1 from y0..height
RandomGenesOn(c) ==
    UNION {
        {create_random_gene(x0, y0, x1, y1, <<r1, g1, b1>>, <<r2, g2, b2>>) :
            x1 \in x0..c[1], y1 \in y0..c[2],
            r1 \in ColourDraws, g1 \in ColourDraws, b1 \in ColourDraws,
            r2 \in ColourDraws, g2 \in ColourDraws, b2 \in ColourDraws} :
        x0 \in 0..c[1], y0 \in 0..c[2]}

\* on the configured canvas
RandomGenes == RandomGenesOn(<<IMAGE_WIDTH, IMAGE_HEIGHT>>)

----------------------------------------------------------------------------
(* mutate *)

\* the test that takes the coordinate branch, on the index in the whole list
IsCoordinateIndex(i) == i < 4

\* what the random.randint of gene i's branch can return
ValueDraws(i) ==
    IF IsCoordinateIndex(i) THEN (-MaxChange)..MaxChange ELSE 0..MaxColor

\* one iteration of the loop for a gene whose random.random() was below the
\* rate; v is the value random.randint returned
MutateGene(m, i, v) ==
    IF IsCoordinateIndex(i)
    THEN LET added == At(m, i) + v
             low == Max(0, added)
             high == IF i < 2
                     THEN Min(IF i = 0 THEN IMAGE_WIDTH ELSE IMAGE_HEIGHT, low)
                     ELSE Min(IF i = 2 THEN IMAGE_WIDTH ELSE IMAGE_HEIGHT, low)
             ordered == IF i < 2 THEN high
                        ELSE IF i = 2 THEN Max(At(m, 0), high)
                        ELSE IF i = 3 THEN Max(At(m, 1), high)
                        ELSE high
         IN  [m EXCEPT ![i + 1] = ordered]
    ELSE [m EXCEPT ![i + 1] = v]

\* a slip: <= for <
BelowOrAtRate(r, rate) == r <= rate

\* random.random() < MUTATION_RATE
BelowRate(r, rate) == r < rate

\* the loop of mutate from gene i on; draws[i + 1] is what random.random()
\* and random.randint return for gene i
RECURSIVE MutateLoop(_, _, _, _)
MutateLoop(m, i, draws, rate) ==
    IF i >= Len(m) THEN m
    ELSE MutateLoop(IF BelowRate(draws[i + 1].r, rate)
                    THEN MutateGene(m, i, draws[i + 1].v)
                    ELSE m,
                    i + 1, draws, rate)

\* a slip: mutated_gene_set = gene_set, without the copy
mutateInPlace(h, gene_set, draws, rate) ==
    [heap |-> [h EXCEPT ![gene_set] = MutateLoop(h[gene_set], 0, draws, rate)],
     ret |-> gene_set]

\* mutate(gene_set): the heap after the call and the id returned
mutate(h, gene_set, draws, rate) ==
    LET copied == Alloc(h, h[gene_set])
        mutated_gene_set == NewId(h)
    IN  [heap |-> [copied EXCEPT ![mutated_gene_set] =
                      MutateLoop(copied[mutated_gene_set], 0, draws, rate)],
         ret |-> mutated_gene_set]

\* The draws of one call, bounded: at most MaxDraws genes, all among the
\* first m, draw something else than <<0.9, 0>> (no mutation below rate 1.0,
\* and the value 0).
DefaultDraw == [r |-> 9, v |-> 0]

\* the other draws of gene i: random.random() returns 0.0 and random.randint
\* any value of its range
DrawsAt(i) == {[r |-> 0, v |-> v] : v \in ValueDraws(i)}

RECURSIVE DrawVectors(_, _, _)
DrawVectors(n, k, m) ==
    IF n = 0 THEN {<<>>}
    ELSE {Append(d, DefaultDraw) : d \in DrawVectors(n - 1, k, m)}
         \cup (IF k = 0 \/ n > m THEN {}
               ELSE {Append(d, x) : d \in DrawVectors(n - 1, k - 1, m),
                                    x \in DrawsAt(n - 1)})

----------------------------------------------------------------------------
(* crossover *)

\* random.random() < 0.5
FirstParent(coin) == coin < 5

\* a slip: the cut points counted in genes, not in shapes
CrossoverChildAnyCut(g1, g2, k1, k2, coin) ==
    LET taken == Prefix(g1, k1) \o Prefix(g2, k2)
    IN  IF taken = <<>>
        THEN IF FirstParent(coin) THEN Prefix(g1, GenesPerShape)
                                  ELSE Prefix(g2, GenesPerShape)
        ELSE taken

\* a slip: no fallback for an empty child
CrossoverChildNoFallback(g1, g2, k1, k2, coin) ==
    Prefix(g1, k1 * GenesPerShape) \o Prefix(g2, k2 * GenesPerShape)

\* a slip: the remaining shapes of parent2, parent2[shapes_from_p2 * 10:]
CrossoverChildTail(g1, g2, k1, k2, coin) ==
    LET taken == Prefix(g1, k1 * GenesPerShape)
                 \o SubSeq(g2, k2 * GenesPerShape + 1, Len(g2))
    IN  IF taken = <<>>
        THEN IF FirstParent(coin) THEN Prefix(g1, GenesPerShape)
                                  ELSE Prefix(g2, GenesPerShape)
        ELSE taken

\* a slip: the fallback shape appended to every child
CrossoverChildAlwaysFallback(g1, g2, k1, k2, coin) ==
    Prefix(g1, k1 * GenesPerShape) \o Prefix(g2, k2 * GenesPerShape)
        \o (IF FirstParent(coin) THEN Prefix(g1, GenesPerShape)
                                 ELSE Prefix(g2, GenesPerShape))

CrossoverChild(g1, g2, k1, k2, coin) ==
    LET taken == Prefix(g1, k1 * GenesPerShape) \o Prefix(g2, k2 * GenesPerShape)
    IN  IF taken = <<>>
        THEN IF FirstParent(coin) THEN Prefix(g1, GenesPerShape)
                                  ELSE Prefix(g2, GenesPerShape)
        ELSE taken

\* crossover(parent1, parent2): the heap after the call and the id returned
crossover(h, p1, p2, k1, k2, coin) ==
    [heap |-> Alloc(h, CrossoverChild(h[p1], h[p2], k1, k2, coin)),
     ret |-> NewId(h)]

----------------------------------------------------------------------------
(* calculate_fitness *)

\* Image.new("RGB", ..., color="white")
White == <<MaxColor, MaxColor, MaxColor>>

\* ImageDraw.rectangle rejects this box when the installed Pillow is strict
Inverted(rect) == At(rect, 2) < At(rect, 0) \/ At(rect, 3) < At(rect, 1)

\* pixel (x, y) lies in the box [x0, y0, x1, y1], both corners included
InBox(rect, x, y) ==
    /\ Min(At(rect, 0), At(rect, 2)) <= x /\ x <= Max(At(rect, 0), At(rect, 2))
    /\ Min(At(rect, 1), At(rect, 3)) <= y /\ y <= Max(At(rect, 1), At(rect, 3))

OnOutline(rect, x, y) ==
    \/ x = At(rect, 0) \/ x = At(rect, 2)
    \/ y = At(rect, 1) \/ y = At(rect, 3)

\* the colour draw.rectangle(..., fill, outline) gives a pixel of the box
Paint(rect, x, y) ==
    IF OnOutline(rect, x, y)
    THEN <<At(rect, 7), At(rect, 8), At(rect, 9)>>
    ELSE <<At(rect, 4), At(rect, 5), At(rect, 6)>>

\* the pixel after all rectangles were drawn in list order: the last one that
\* covers it decides
Pixel(gene_set, x, y) ==
    LET over == {s \in 1..NumShapes(gene_set) : InBox(Shape(gene_set, s), x, y)}
    IN  IF over = {} THEN White
        ELSE Paint(Shape(gene_set, CHOOSE s \in over : \A t \in over : t <= s), x, y)

\* set(img.getdata())
UniqueColors(gene_set) ==
    {Pixel(gene_set, x, y) : x \in 0..(IMAGE_WIDTH - 1), y \in 0..(IMAGE_HEIGHT - 1)}

RECURSIVE TotalShapeArea(_, _)
TotalShapeArea(gene_set, s) ==
    IF s = 0 THEN 0
    ELSE LET rect == Shape(gene_set, s)
         IN  TotalShapeArea(gene_set, s - 1)
             + Abs(At(rect, 2) - At(rect, 0)) * Abs(At(rect, 3) - At(rect, 1))

\* draw.rectangle raises ValueError
RenderFails(gene_set, isStrict) ==
    isStrict /\ \E s \in 1..NumShapes(gene_set) : Inverted(Shape(gene_set, s))

\* Image.new raises ValueError for a negative width or height
ImageNewFails(c) == c[1] < 0 \/ c[2] < 0

\* line 82 divides by IMAGE_WIDTH * IMAGE_HEIGHT: ZeroDivisionError
CoverageFails(c) == c[1] * c[2] = 0

\* calculate_fitness(gene_set) raises on canvas c
EvaluateFails(gene_set, c, isStrict) ==
    \/ ImageNewFails(c)
    \/ RenderFails(gene_set, isStrict)
    \/ CoverageFails(c)

\* a slip: the area term without the cap of min(..., 1.0)
calculate_fitnessUncapped(gene_set) ==
    Cardinality(UniqueColors(gene_set)) * 5 * (IMAGE_WIDTH * IMAGE_HEIGHT)
    + TotalShapeArea(gene_set, NumShapes(gene_set)) * 50

\* the fitness times IMAGE_WIDTH * IMAGE_HEIGHT
calculate_fitness(gene_set) ==
    Cardinality(UniqueColors(gene_set)) * 5 * (IMAGE_WIDTH * IMAGE_HEIGHT)
    + Min(TotalShapeArea(gene_set, NumShapes(gene_set)), IMAGE_WIDTH * IMAGE_HEIGHT) * 50

----------------------------------------------------------------------------
(* select_parents *)

\* a slip: the sample drawn with repetition, as random.choices does
RECURSIVE SamplesWithRepetition(_, _)
SamplesWithRepetition(n, k) ==
    IF k = 0 THEN {<<>>}
    ELSE UNION {{Append(s, i) : i \in 0..(n - 1)} :
                    s \in SamplesWithRepetition(n, k - 1)}

\* random.sample(range(n), tournament_size): sequences of pairwise distinct
\* indices; none when n < tournament_size (ValueError)
RECURSIVE DistinctSamples(_, _)
DistinctSamples(n, k) ==
    IF k = 0 THEN {<<>>}
    ELSE UNION {{Append(s, i) : i \in (0..(n - 1)) \ Range(s)} :
                    s \in DistinctSamples(n, k - 1)}

\* a slip: >= for >, the index drawn last wins a tie
RECURSIVE BestIndexLastWins(_, _, _, _)
BestIndexLastWins(fit, selected_indices, j, best_index) ==
    IF j > Len(selected_indices) THEN best_index
    ELSE BestIndexLastWins(fit, selected_indices, j + 1,
                           IF At(fit, selected_indices[j]) >= At(fit, best_index)
                           THEN selected_indices[j] ELSE best_index)

\* the loop over selected_indices[1:]
RECURSIVE BestIndex(_, _, _, _)
BestIndex(fit, selected_indices, j, best_index) ==
    IF j > Len(selected_indices) THEN best_index
    ELSE BestIndex(fit, selected_indices, j + 1,
                   IF At(fit, selected_indices[j]) > At(fit, best_index)
                   THEN selected_indices[j] ELSE best_index)

Tournament(fit, selected_indices) ==
    BestIndex(fit, selected_indices, 2, selected_indices[1])

\* population[best_index] for every sample random.sample can return
TournamentWinners(pop, fit) ==
    {At(pop, Tournament(fit, selected_indices)) :
        selected_indices \in DistinctSamples(Len(pop), tournament_size)}

\* what select_parents(population, fitnesses) can return: the two samples are
\* drawn one after the other from the same range
select_parents(pop, fit) ==
    LET winners == TournamentWinners(pop, fit)
    IN  {<<p1, p2>> : p1 \in winners, p2 \in winners}

----------------------------------------------------------------------------
(* evolve_population: elitism and the loop condition *)

\* a slip: the loop stops one child early
FillMoreButLast(next, pop) == Len(next) < Len(pop) - 1

\* len(next_generation) < len(population)
FillMore(next, pop) == Len(next) < Len(pop)

\* a slip: sorted without reverse=True
SortedPositionAscending(fit, i) ==
    Cardinality({j \in 0..(Len(fit) - 1) :
        At(fit, j) < At(fit, i) \/ (At(fit, j) = At(fit, i) /\ j < i)})

\* a slip: a sort that is not stable, equal fitnesses in reverse order
SortedPositionTiesLast(fit, i) ==
    Cardinality({j \in 0..(Len(fit) - 1) :
        At(fit, j) > At(fit, i) \/ (At(fit, j) = At(fit, i) /\ j > i)})

\* position of index i in sorted(zip(population, fitnesses), key, reverse=True):
\* descending fitness, equal fitnesses in population order
SortedPosition(fit, i) ==
    Cardinality({j \in 0..(Len(fit) - 1) :
        At(fit, j) > At(fit, i) \/ (At(fit, j) = At(fit, i) /\ j < i)})

\* sorted_population[k][0]
SortedPopulation(pop, fit, k) ==
    At(pop, CHOOSE i \in 0..(Len(pop) - 1) : SortedPosition(fit, i) = k)

Elites(pop, fit) == [k \in 1..ELITISM_COUNT |-> SortedPopulation(pop, fit, k - 1)]

----------------------------------------------------------------------------
(* create_initial_population *)

\* The genes the model's individuals are made of: the lists of
\* create_random_gene that start at the origin and are a single point or span
\* the canvas, filled white and outlined black.
SeedGenesOn(c) ==
    {g \in RandomGenesOn(c) :
        /\ At(g, 0) = 0 /\ At(g, 1) = 0
        /\ <<At(g, 2), At(g, 3)>> \in {<<0, 0>>, c}
        /\ At(g, 4) = MaxColor /\ At(g, 5) = MaxColor /\ At(g, 6) = MaxColor
        /\ At(g, 7) = 0 /\ At(g, 8) = 0 /\ At(g, 9) = 0}

SeedGenes == SeedGenesOn(<<IMAGE_WIDTH, IMAGE_HEIGHT>>)

\* individual_genes after n calls of extend with genes of the set given
RECURSIVE IndividualsOf(_, _)
IndividualsOf(n, genes) ==
    IF n = 0 THEN {<<>>}
    ELSE {i \o g : i \in IndividualsOf(n - 1, genes), g \in genes}

Individuals(n) == IndividualsOf(n, SeedGenes)

InitialIndividualsOn(c) ==
    UNION {IndividualsOf(n, SeedGenesOn(c)) : n \in MinInitialShapes..MaxInitialShapes}

InitialIndividuals == InitialIndividualsOn(<<IMAGE_WIDTH, IMAGE_HEIGHT>>)

----------------------------------------------------------------------------
(* render_artwork and the choice of the final artwork *)

\* Image.new("RGB", (IMAGE_WIDTH, IMAGE_HEIGHT), color="white")
BlankImage ==
    [p \in (0..(IMAGE_WIDTH - 1)) \X (0..(IMAGE_HEIGHT - 1)) |-> White]

\* draw.rectangle([x0, y0, x1, y1], fill, outline) on img
DrawRectangle(img, rect) ==
    [p \in DOMAIN img |->
        IF InBox(rect, p[1], p[2]) THEN Paint(rect, p[1], p[2]) ELSE img[p]]

\* the loop of lines 219-224 from the s-th shape on
RECURSIVE DrawShapes(_, _, _)
DrawShapes(img, gene_set, s) ==
    IF s > NumShapes(gene_set) THEN img
    ELSE DrawShapes(DrawRectangle(img, Shape(gene_set, s)), gene_set, s + 1)

\* a slip: the shapes drawn from the last to the first
RECURSIVE DrawShapesBackwards(_, _, _)
DrawShapesBackwards(img, gene_set, s) ==
    IF s < 1 THEN img
    ELSE DrawShapesBackwards(DrawRectangle(img, Shape(gene_set, s)), gene_set, s - 1)

render_artworkBackwards(gene_set) ==
    DrawShapesBackwards(BlankImage, gene_set, NumShapes(gene_set))

\* the image render_artwork(gene_set, filename) saves
render_artwork(gene_set) == DrawShapes(BlankImage, gene_set, 1)

\* max(final_fitnesses)
ListMax(seq) == CHOOSE m \in Range(seq) : \A v \in Range(seq) : v <= m

\* a slip: the last position of the value
ListIndexLast(seq, v) ==
    (CHOOSE i \in DOMAIN seq : seq[i] = v /\ \A j \in DOMAIN seq : seq[j] = v => j <= i) - 1

\* final_fitnesses.index(v): the first position of the value, 0-based
ListIndex(seq, v) ==
    (CHOOSE i \in DOMAIN seq : seq[i] = v /\ \A j \in DOMAIN seq : seq[j] = v => i <= j) - 1

\* a slip: the exception is caught and the run goes on to the final step
RaisedAndCaught == "final"

\* where an exception leaves the run: nothing catches it, the process ends
Raised == "failed"

\* a slip: one generation more
MoreGenerationsInclusive(g) == g <= NUM_GENERATIONS

\* `for generation in range(NUM_GENERATIONS)` has another round
MoreGenerations(g) == g < NUM_GENERATIONS

----------------------------------------------------------------------------
(* Strings: a str is the sequence of its characters *)

UpperCase == <<"A", "B", "C", "D", "E", "F", "G", "H", "I", "J", "K", "L", "M",
               "N", "O", "P", "Q", "R", "S", "T", "U", "V", "W", "X", "Y", "Z">>
LowerCase == <<"a", "b", "c", "d", "e", "f", "g", "h", "i", "j", "k", "l", "m",
               "n", "o", "p", "q", "r", "s", "t", "u", "v", "w", "x", "y", "z">>

LowerChar(c) ==
    IF \E i \in DOMAIN UpperCase : UpperCase[i] = c
    THEN LowerCase[CHOOSE i \in DOMAIN UpperCase : UpperCase[i] = c]
    ELSE c

\* str.lower()
Lower(str) == [i \in DOMAIN str |-> LowerChar(str[i])]

IsSpace(c) == c \in {" ", "\t"}

\* str.lstrip()
RECURSIVE LStrip(_)
LStrip(str) ==
    IF str # <<>> /\ IsSpace(Head(str)) THEN LStrip(Tail(str)) ELSE str

\* str.rstrip()
RECURSIVE RStrip(_)
RStrip(str) ==
    IF str # <<>> /\ IsSpace(str[Len(str)])
    THEN RStrip(SubSeq(str, 1, Len(str) - 1)) ELSE str

\* str.strip()
Strip(str) == RStrip(LStrip(str))

\* sub in str
Contains(sub, str) ==
    \E i \in 0..(Len(str) - Len(sub)) : SubSeq(str, i + 1, i + Len(sub)) = sub

\* the dict d after d[key] = value
DictSet(d, key, value) ==
    [k \in DOMAIN d \cup {key} |-> IF k = key THEN value ELSE d[k]]

----------------------------------------------------------------------------
(* AI pet (src/python_learning_fb30e5.py) *)

str_hello == <<"h", "e", "l", "l", "o">>
str_how_are_you == <<"h", "o", "w", " ", "a", "r", "e", " ", "y", "o", "u">>
str_sleep == <<"s", "l", "e", "e", "p">>
str_play == <<"p", "l", "a", "y">>
str_eat == <<"e", "a", "t">>
str_quit == <<"q", "u", "i", "t">>

\* lines 26-32
KnownCommandsAtStart ==
    (str_hello :> <<"H", "i", " ", "t", "h", "e", "r", "e", "!">>) @@
    (str_how_are_you :> <<"I", "'", "m", " ", "f", "e", "e", "l", "i", "n", "g", " ", "g", "r", "e", "a", "t", "!">>) @@
    (str_sleep :> <<"Z", "z", "z", "z", "z", ".", ".", ".">>) @@
    (str_play :> <<"L", "e", "t", "'", "s", " ", "p", "l", "a", "y", " ", "f", "e", "t", "c", "h", "!">>) @@
    (str_eat :> <<"Y", "u", "m", ",", " ", "I", " ", "l", "o", "v", "e", " ", "f", "o", "o", "d", "!">>)

\* no line was read
NoLine == <<"EOF">>

PetStart ==
    /\ pet_state = [name |-> "Buddy", mood |-> "happy", hunger |-> 5, energy |-> 8]
    /\ known_commands = KnownCommandsAtStart
    /\ game = "running"
    /\ pet_typed = <<NoLine, NoLine>>

\* a slip: the values are not brought back into the range
Unclamped(v) == v

\* max(0, min(10, v)), lines 76-77
Clamp(v) == Max(0, Min(10, v))

\* lines 61-73
CommandEffect(command, pet) ==
    IF command = str_play
    THEN [pet EXCEPT !.hunger = @ + 1, !.energy = @ - 2, !.mood = "excited"]
    ELSE IF command = str_eat
    THEN [pet EXCEPT !.hunger = @ - 3, !.energy = @ + 1, !.mood = "satisfied"]
    ELSE IF command = str_sleep
    THEN [pet EXCEPT !.energy = @ + 4, !.mood = "sleepy"]
    ELSE IF command = str_hello \/ command = str_how_are_you
    THEN [pet EXCEPT !.mood = "happy"]
    ELSE pet

\* a slip: a known command is taught again
IsKnownNever(command, knowledge_base) == FALSE

\* command in knowledge_base, line 55
IsKnown(command, knowledge_base) == command \in DOMAIN knowledge_base

\* process_command(command, pet, knowledge_base): the pet and the knowledge
\* base after the call; `line` is what the user types at line 83
process_command(raw, pet, knowledge_base, line) ==
    LET command == Strip(Lower(raw))
        new_response == Strip(line)
    IN  IF IsKnown(command, knowledge_base)
        THEN LET changed == CommandEffect(command, pet)
             IN  [pet |-> [changed EXCEPT !.hunger = Clamp(@), !.energy = Clamp(@)],
                  knowledge_base |-> knowledge_base]
        ELSE [pet |-> pet,
              knowledge_base |->
                 IF new_response # <<>>
                 THEN DictSet(knowledge_base, command, new_response)
                 ELSE knowledge_base]

\* what the user types at the prompt of line 103
TypedCommands ==
    {str_play, <<"P", "l", "a", "y", " ">>, <<" ", "E", "A", "T">>, <<"S", "l", "e", "e", "p">>, str_hello,
     <<"H", "o", "w", " ", "a", "r", "e", " ", "y", "o", "u">>, <<"d", "a", "n", "c", "e">>, <<" ", "D", "a", "n", "c", "e">>,
     str_quit, <<" ", "Q", "U", "I", "T", " ">>}

\* what the user types at the prompt of line 83
TypedResponses ==
    {<<>>, <<" ">>, <<"S", "p", "i", "n">>, <<" ", "s", "p", "i", "n", " ">>}

\* one round of game_loop's while, lines 101-110
GameLoop ==
    /\ game = "running"
    /\ \E typed \in TypedCommands :
          LET user_input == Strip(Lower(typed))
          IN  IF user_input = str_quit
              THEN /\ game' = "ended"
                   /\ pet_typed' = <<typed, NoLine>>
                   /\ UNCHANGED <<pet_state, known_commands>>
              ELSE \E line \in TypedResponses :
                     LET asked == ~IsKnown(Strip(Lower(user_input)), known_commands)
                         call == process_command(user_input, pet_state,
                                                 known_commands, line)
                     IN  /\ pet_state' = call.pet
                         /\ known_commands' = call.knowledge_base
                         /\ pet_typed' = <<typed, IF asked THEN line ELSE NoLine>>
                         /\ UNCHANGED game
    /\ UNCHANGED <<artVars, chatVars, plotVars, spendVars, dataVars>>

----------------------------------------------------------------------------
(* Learning chatbot (src/python_tutorial_179b18.py) *)

\* line 46
DontKnow ==
    <<"I", " ", "d", "o", "n", "'", "t", " ", "k", "n", "o", "w", " ", "h",
      "o", "w", " ", "t", "o", " ", "r", "e", "s", "p", "o", "n", "d", " ",
      "t", "o", " ", "t", "h", "a", "t", ".", " ", "W", "h", "a", "t", " ",
      "s", "h", "o", "u", "l", "d", " ", "I", " ", "s", "a", "y", "?">>

\* line 89
WhatShouldISay ==
    <<"W", "h", "a", "t", " ", "s", "h", "o", "u", "l", "d", " ", "I", " ",
      "s", "a", "y", "?">>

\* line 64
ThankYou ==
    <<"T", "h", "a", "n", "k", " ", "y", "o", "u", "!", " ", "I", "'", "v",
      "e", " ", "l", "e", "a", "r", "n", "e", "d", " ", "t", "h", "a", "t",
      ".">>

\* line 82
Goodbye == <<"G", "o", "o", "d", "b", "y", "e", "!">>

\* get_bot_response(user_input), lines 38-46
get_bot_response(user_input, knowledge) ==
    LET processed_input == Lower(user_input)
    IN  IF processed_input \in DOMAIN knowledge
        THEN knowledge[processed_input]
        ELSE DontKnow

\* chatbot_knowledge after teach_chatbot(user_input, bot_response), lines 59-63
teach_chatbot(user_input, bot_response, knowledge) ==
    DictSet(knowledge, Lower(user_input), bot_response)

\* the test of line 89
NeedsToLearn(bot_reply) == Contains(WhatShouldISay, bot_reply)

\* what the user types at the prompt of line 78
TypedMessages ==
    {<<"h", "i">>, <<"H", "i">>, <<"b", "y", "e">>, <<"q", "u", "i", "t">>, <<"Q", "u", "i", "t">>}

\* what the user types at the prompt of line 92
TypedTeachings ==
    {<<>>, <<"y", "o">>, WhatShouldISay}

\* one round of start_chat's while, lines 78-97
StartChat ==
    /\ chat = "running"
    /\ \E user_message \in TypedMessages :
          IF Lower(user_message) = str_quit
          THEN /\ bot_printed' = <<Goodbye>>
               /\ chat' = "ended"
               /\ chat_typed' = <<user_message, NoLine>>
               /\ UNCHANGED chatbot_knowledge
          ELSE LET bot_reply == get_bot_response(user_message, chatbot_knowledge)
               IN  IF NeedsToLearn(bot_reply)
                   THEN \E new_response \in TypedTeachings :
                          /\ chatbot_knowledge' =
                                teach_chatbot(user_message, new_response,
                                              chatbot_knowledge)
                          /\ bot_printed' = <<bot_reply, ThankYou>>
                          /\ chat_typed' = <<user_message, new_response>>
                          /\ UNCHANGED chat
                   ELSE /\ bot_printed' = <<bot_reply>>
                        /\ chat_typed' = <<user_message, NoLine>>
                        /\ UNCHANGED <<chatbot_knowledge, chat>>
    /\ UNCHANGED <<artVars, petVars, plotVars, spendVars, dataVars>>

----------------------------------------------------------------------------
(* Sensor plot (src/python_example_ea6d31.py); MAX_DATA_POINTS and the     *)
(* range of a reading are scaled down.                                     *)

\* a slip: > for >=
BufferOverFull(num_points) == num_points > MAX_DATA_POINTS

\* the test of line 70
BufferFull(num_points) == num_points >= MAX_DATA_POINTS

\* update(frame), lines 62-81, for one sensor reading
Update ==
    /\ Len(received) < MaxSamples
    /\ \E current_sensor_reading \in 0..MaxReading :
          LET num_points == Len(x_data)
              \* pop(0), lines 72-73
              kept_x == IF BufferFull(num_points) THEN Tail(x_data) ELSE x_data
              kept_y == IF BufferFull(num_points) THEN Tail(y_data) ELSE y_data
          IN  /\ x_data' = Append(kept_x, num_points)
              /\ y_data' = Append(kept_y, current_sensor_reading)
              /\ received' = Append(received, current_sensor_reading)
    /\ UNCHANGED <<artVars, petVars, chatVars, spendVars, dataVars>>

----------------------------------------------------------------------------
(* Expense tracker (src/python_demo_a3bb5e.py).  A float is a record: a    *)
(* finite one holds its value in hundredths, which is exact for the        *)
(* amounts typed here; nan and inf are kinds of their own.                 *)

Digits == <<"0", "1", "2", "3", "4", "5", "6", "7", "8", "9">>

DigitValue(c) == (CHOOSE i \in DOMAIN Digits : Digits[i] = c) - 1

IsDigits(str) == \A i \in DOMAIN str : \E d \in DOMAIN Digits : Digits[d] = str[i]

\* the value of a string of digits, 0 for the empty one
RECURSIVE DigitsValue(_)
DigitsValue(str) ==
    IF str = <<>> THEN 0
    ELSE 10 * DigitsValue(SubSeq(str, 1, Len(str) - 1)) + DigitValue(str[Len(str)])

Finite(hundredths) == [kind |-> "finite", hundredths |-> hundredths]
NaN == [kind |-> "nan", hundredths |-> 0]
Infinity(sign) == [kind |-> "inf", hundredths |-> sign]
ValueError == [kind |-> "ValueError", hundredths |-> 0]

\* float() of an unsigned decimal: digits, with at most one point and at
\* least one digit
ParseUnsigned(str, sign) ==
    LET points == {i \in DOMAIN str : str[i] = "."}
    IN  IF points = {}
        THEN IF str # <<>> /\ IsDigits(str)
             THEN Finite(sign * 100 * DigitsValue(str))
             ELSE ValueError
        ELSE IF Cardinality(points) > 1 THEN ValueError
        ELSE LET at == CHOOSE i \in points : TRUE
                 whole == SubSeq(str, 1, at - 1)
                 part == SubSeq(str, at + 1, Len(str))
                 \* the hundredths of the digits after the point; further
                 \* digits are beyond the model's precision
                 fraction == IF part = <<>> THEN 0
                             ELSE IF Len(part) = 1 THEN 10 * DigitValue(part[1])
                             ELSE DigitsValue(SubSeq(part, 1, 2))
             IN  IF IsDigits(whole) /\ IsDigits(part) /\ Len(str) > 1
                 THEN Finite(sign * (100 * DigitsValue(whole) + fraction))
                 ELSE ValueError

\* float() as it would be if it rejected nan
ParseSignedNoNaN(str, sign) ==
    IF Lower(str) \in {<<"i", "n", "f">>, <<"i", "n", "f", "i", "n", "i", "t", "y">>}
    THEN Infinity(sign)
    ELSE ParseUnsigned(str, sign)

\* float() after the sign: nan and inf in any case, or a decimal
ParseSigned(str, sign) ==
    IF Lower(str) = <<"n", "a", "n">> THEN NaN
    ELSE IF Lower(str) \in {<<"i", "n", "f">>, <<"i", "n", "f", "i", "n", "i", "t", "y">>}
    THEN Infinity(sign)
    ELSE ParseUnsigned(str, sign)

\* float(str): the whitespace around is ignored, one sign is allowed
ParseFloat(str) ==
    LET text == Strip(str)
    IN  IF text # <<>> /\ Head(text) = "-" THEN ParseSigned(Tail(text), -1)
        ELSE IF text # <<>> /\ Head(text) = "+" THEN ParseSigned(Tail(text), 1)
        ELSE ParseSigned(text, 1)

\* a < 0 for a float a: false for nan
FloatNegative(a) == a.kind \in {"finite", "inf"} /\ a.hundredths < 0

\* a + b for floats that are not ValueError
FloatAdd(a, b) ==
    IF a.kind = "nan" \/ b.kind = "nan" THEN NaN
    ELSE IF a.kind = "inf" /\ b.kind = "inf"
    THEN IF a.hundredths = b.hundredths THEN a ELSE NaN
    ELSE IF a.kind = "inf" THEN a
    ELSE IF b.kind = "inf" THEN b
    ELSE Finite(a.hundredths + b.hundredths)

\* str(n) for a natural number
RECURSIVE NatStr(_)
NatStr(n) ==
    IF n < 10 THEN <<Digits[n + 1]>>
    ELSE Append(NatStr(n \div 10), Digits[(n % 10) + 1])

\* f"{a:.2f}"
Format2f(a) ==
    IF a.kind = "nan" THEN <<"n", "a", "n">>
    ELSE IF a.kind = "inf"
    THEN (IF a.hundredths < 0 THEN <<"-">> ELSE <<>>) \o <<"i", "n", "f">>
    ELSE LET h == Abs(a.hundredths)
         IN  (IF a.hundredths < 0 THEN <<"-">> ELSE <<>>)
             \o NatStr(h \div 100) \o <<".">>
             \o <<Digits[((h % 100) \div 10) + 1], Digits[(h % 10) + 1]>>

\* ord(c), up to the order: the characters of the model in the order of
\* their code points
Ord(c) ==
    LET code_points == <<" ">> \o Digits \o UpperCase \o LowerCase
    IN  CHOOSE i \in DOMAIN code_points : code_points[i] = c

\* a < b for strings
RECURSIVE StrLess(_, _)
StrLess(a, b) ==
    IF b = <<>> THEN FALSE
    ELSE IF a = <<>> THEN TRUE
    ELSE IF Head(a) # Head(b) THEN Ord(Head(a)) < Ord(Head(b))
    ELSE StrLess(Tail(a), Tail(b))

\* sorted(keys)
RECURSIVE SortedStrings(_)
SortedStrings(keys) ==
    IF keys = {} THEN <<>>
    ELSE LET first == CHOOSE k \in keys : \A other \in keys \ {k} : StrLess(k, other)
         IN  <<first>> \o SortedStrings(keys \ {first})

\* lines 73-85
CategoryEmpty ==
    <<"E", "r", "r", "o", "r", ":", " ", "C", "a", "t", "e", "g", "o", "r",
      "y", " ", "c", "a", "n", "n", "o", "t", " ", "b", "e", " ", "e", "m",
      "p", "t", "y", ".">>
AmountNegative ==
    <<"E", "r", "r", "o", "r", ":", " ", "E", "x", "p", "e", "n", "s", "e",
      " ", "a", "m", "o", "u", "n", "t", " ", "c", "a", "n", "n", "o", "t",
      " ", "b", "e", " ", "n", "e", "g", "a", "t", "i", "v", "e", ".">>
AmountInvalid ==
    <<"E", "r", "r", "o", "r", ":", " ", "I", "n", "v", "a", "l", "i", "d",
      " ", "e", "x", "p", "e", "n", "s", "e", " ", "a", "m", "o", "u", "n",
      "t", ".", " ", "P", "l", "e", "a", "s", "e", " ", "e", "n", "t", "e",
      "r", " ", "a", " ", "n", "u", "m", "b", "e", "r", ".">>
TotalLabel == <<"T", "o", "t", "a", "l", ":", " ", "$">>

\* total_spending after the loop of lines 110-114 over the categories given
RECURSIVE TotalSpending(_, _)
TotalSpending(spending, categories) ==
    IF categories = <<>> THEN Finite(0)
    ELSE FloatAdd(TotalSpending(spending, SubSeq(categories, 1, Len(categories) - 1)),
                  spending[categories[Len(categories)]])

\* the lines update_summary(error_message) leaves in summary_text,
\* lines 98-120; <<>> stands for no error message
update_summary(error_message, spending) ==
    IF error_message # <<>>
    THEN <<error_message>>
    ELSE LET categories == SortedStrings(DOMAIN spending)
         IN  [i \in DOMAIN categories |->
                 categories[i] \o <<":", " ", "$">> \o Format2f(spending[categories[i]])]
             \o <<[i \in 1..20 |-> "-"],
                 TotalLabel \o Format2f(TotalSpending(spending, categories))>>

\* spending_data[category], a defaultdict(int)
Spent(spending, category) ==
    IF category \in DOMAIN spending THEN spending[category] ELSE Finite(0)

\* what the user types into the expense field
TypedAmounts ==
    {<<"5">>, <<" ", "2", ".", "5", "0", " ">>, <<"-", "1">>, <<"a", "b", "c">>, <<>>, <<"N", "a", "N">>}

\* what the user types into the category field
TypedCategories ==
    {<<"f", "o", "o", "d">>, <<" ", "f", "o", "o", "d", " ">>, <<"r", "e", "n", "t">>, <<" ">>}

\* the user replaces the text of the expense field
TypeExpense ==
    /\ expense_entry' \in TypedAmounts
    /\ UNCHANGED <<spending_data, category_entry, summary_text>>
    /\ UNCHANGED <<artVars, petVars, chatVars, plotVars, dataVars>>

\* the user replaces the text of the category field
TypeCategory ==
    /\ category_entry' \in TypedCategories
    /\ UNCHANGED <<spending_data, expense_entry, summary_text>>
    /\ UNCHANGED <<artVars, petVars, chatVars, plotVars, dataVars>>

\* add_expense(), lines 67-95; the model stops adding once a total has
\* passed MaxTotal
add_expense ==
    /\ \A c \in DOMAIN spending_data :
          spending_data[c].kind = "finite" => spending_data[c].hundredths <= MaxTotal
    /\ LET expense_str == expense_entry
           category == Strip(category_entry)
           expense_amount == ParseFloat(expense_str)
       IN  IF category = <<>>
           THEN /\ summary_text' = update_summary(CategoryEmpty, spending_data)
                /\ UNCHANGED <<spending_data, expense_entry, category_entry>>
           ELSE IF expense_amount = ValueError
           THEN /\ summary_text' = update_summary(AmountInvalid, spending_data)
                /\ UNCHANGED <<spending_data, expense_entry, category_entry>>
           ELSE IF FloatNegative(expense_amount)
           THEN /\ summary_text' = update_summary(AmountNegative, spending_data)
                /\ UNCHANGED <<spending_data, expense_entry, category_entry>>
           ELSE /\ spending_data' =
                     DictSet(spending_data, category,
                             FloatAdd(Spent(spending_data, category), expense_amount))
                /\ expense_entry' = <<>>
                /\ category_entry' = <<>>
                /\ summary_text' = update_summary(<<>>, spending_data')
    /\ UNCHANGED <<artVars, petVars, chatVars, plotVars, dataVars>>

----------------------------------------------------------------------------
(* Daily challenge (src/challenges/challenge_2026_01_14_1768536855841.py): *)
(* process_data on lists of integers.                                      *)

\* the list with v inserted before the first greater element
RECURSIVE Insert(_, _)
Insert(list, v) ==
    IF list = <<>> THEN <<v>>
    ELSE IF v < Head(list) THEN <<v>> \o list
    ELSE <<Head(list)>> \o Insert(Tail(list), v)

\* a slip: the list returned as it was collected
Unsorted(list) == list

\* sorted(list): a new list, ascending
RECURSIVE Sorted(_)
Sorted(list) ==
    IF list = <<>> THEN <<>>
    ELSE Insert(Sorted(SubSeq(list, 1, Len(list) - 1)), list[Len(list)])

\* the loop of lines 12-15 from the i-th item on
RECURSIVE Collect_unseen(_, _, _, _)
Collect_unseen(list, i, collected, seen) ==
    IF i > Len(list) THEN collected
    ELSE IF list[i] \notin seen
    THEN Collect_unseen(list, i + 1, Append(collected, list[i]), seen \cup {list[i]})
    ELSE Collect_unseen(list, i + 1, collected, seen)

\* process_data(data): the list returned and the input list after the call
process_data(input) ==
    [ret |-> Sorted(Collect_unseen(input, 1, <<>>, {})),
     data |-> input]

\* result = sol.process_data(data)
ProcessData ==
    /\ calls = 0
    /\ LET call == process_data(data)
       IN  /\ result' = call.ret
           /\ data' = call.data
    /\ calls' = 1
    /\ UNCHANGED <<artVars, petVars, chatVars, plotVars, spendVars>>

\* result = sol.process_data(result): the list returned is processed again
ProcessResult ==
    /\ calls = 1
    /\ LET call == process_data(result)
       IN  /\ result' = call.ret
           /\ data' = call.data
    /\ calls' = 2
    /\ UNCHANGED <<artVars, petVars, chatVars, plotVars, spendVars>>

----------------------------------------------------------------------------
(* The other programs before their first step *)

ChatStart ==
    /\ chatbot_knowledge = <<>>
    /\ chat = "running"
    /\ bot_printed = <<>>
    /\ chat_typed = <<NoLine, NoLine>>

PlotStart ==
    /\ x_data = <<>>
    /\ y_data = <<>>
    /\ received = <<>>

SpendStart ==
    /\ spending_data = <<>>
    /\ expense_entry = <<>>
    /\ category_entry = <<>>
    /\ summary_text = <<>>

DataStart ==
    /\ data = <<>>
    /\ result = <<>>
    /\ calls = 0

OthersStart == PetStart /\ ChatStart /\ PlotStart /\ SpendStart /\ DataStart

\* the art evolver before its first step
ArtIdle ==
    /\ heap = <<>>
    /\ MUTATION_RATE = MUTATION_RATE_CONFIG
    /\ strict = FALSE
    /\ pc = "start"
    /\ population = <<>>
    /\ generation = 0
    /\ fitnesses = <<>>
    /\ next_generation = <<>>
    /\ parent1 = 0 /\ parent2 = 0 /\ child = 0 /\ mutated = 0
    /\ shapes_from = <<0, 0>>
    /\ canvas = <<IMAGE_WIDTH, IMAGE_HEIGHT>>
    /\ evaluations = 0
    /\ sample = <<>>
    /\ final_fitnesses = <<>>
    /\ best_artwork_index = 0
    /\ output = <<>>
    /\ NUM_INITIAL_SHAPES = MaxPopulation

\* every program before its first step
InitPrograms == ArtIdle /\ OthersStart

\* the AI pet on its own
SpecPet == InitPrograms /\ [][GameLoop]_vars

\* the chatbot on its own
SpecChat == InitPrograms /\ [][StartChat]_vars

\* the sensor plot on its own
SpecPlot == InitPrograms /\ [][Update]_vars

\* the expense tracker on its own
NextSpend == TypeExpense \/ TypeCategory \/ add_expense

SpecSpend == InitPrograms /\ [][NextSpend]_vars

\* process_data on its own, for any list of up to MaxLen items
InitData ==
    /\ ArtIdle /\ PetStart /\ ChatStart /\ PlotStart /\ SpendStart
    /\ data \in UNION {[1..n -> 0..MaxItem] : n \in 0..MaxLen}
    /\ result = <<>>
    /\ calls = 0

NextData == ProcessData \/ ProcessResult

SpecData == InitData /\ [][NextData]_vars

----------------------------------------------------------------------------
(* The run: lines 231-248, with evolve_population's loop unrolled into steps. *)
(* A local that refers to no list is 0.                                    *)

Init ==
    /\ heap = <<>>
    /\ MUTATION_RATE = MUTATION_RATE_CONFIG
    /\ strict \in BOOLEAN
    /\ pc = "start"
    /\ population = <<>>
    /\ generation = 0
    /\ fitnesses = <<>>
    /\ next_generation = <<>>
    /\ parent1 = 0 /\ parent2 = 0 /\ child = 0 /\ mutated = 0
    /\ shapes_from = <<0, 0>>
    /\ canvas = <<IMAGE_WIDTH, IMAGE_HEIGHT>>
    /\ evaluations = 0
    /\ sample = <<>>
    /\ final_fitnesses = <<>>
    /\ best_artwork_index = 0
    /\ output = <<>>
    /\ NUM_INITIAL_SHAPES \in 1..MaxPopulation
    /\ OthersStart

\* population = create_initial_population(NUM_INITIAL_SHAPES), line 234, each
\* individual one of those given
CreateWith(individualSet) ==
    /\ pc = "start"
    /\ IF NUM_INITIAL_SHAPES > 0 /\ CreateGeneFails(canvas)
       THEN /\ pc' = Raised
            /\ UNCHANGED <<heap, population>>
       ELSE /\ LET size == NUM_INITIAL_SHAPES
               IN  \E individuals \in [1..size -> individualSet] :
                      /\ heap' = individuals
                      /\ population' = [i \in 1..size |-> i]
            /\ pc' = "loop"
    /\ UNCHANGED <<artConfig, otherPrograms, generation, fitnesses, next_generation,
                   parent1, parent2, shapes_from, child, mutated>>
    /\ UNCHANGED finalVars

\* in the run, the individuals are made of the seed genes
CreateInitialPopulation == CreateWith(InitialIndividualsOn(canvas))

\* another round of line 237 and evolve_population, lines 186-194: the
\* fitnesses and the elites
EvolveBegin ==
    /\ pc = "loop"
    /\ MoreGenerations(generation)
    /\ IF \E i \in DOMAIN population :
             EvaluateFails(heap[population[i]], canvas, strict)
       THEN /\ pc' = Raised
            /\ UNCHANGED <<fitnesses, next_generation, evaluations>>
       ELSE /\ evaluations' = evaluations + 1
            /\ IF Len(population) < ELITISM_COUNT
               THEN /\ pc' = Raised
                    /\ UNCHANGED <<fitnesses, next_generation>>
               ELSE /\ fitnesses' = [i \in DOMAIN population |->
                                        calculate_fitness(heap[population[i]])]
                    /\ next_generation' = Elites(population, fitnesses')
                    /\ pc' = "fill"
    /\ UNCHANGED <<heap, artConfig, otherPrograms, population, generation,
                   parent1, parent2, shapes_from, child, mutated>>
    /\ UNCHANGED <<canvas, sample, final_fitnesses,
                   best_artwork_index, output>>

\* line 197 true, line 199
SelectParents ==
    /\ pc = "fill"
    /\ FillMore(next_generation, population)
    /\ IF DistinctSamples(Len(population), tournament_size) = {}
       THEN /\ pc' = Raised
            /\ UNCHANGED <<parent1, parent2>>
       ELSE /\ \E parents \in select_parents(population, fitnesses) :
                 parent1' = parents[1] /\ parent2' = parents[2]
            /\ pc' = "crossover"
    /\ UNCHANGED <<heap, artConfig, otherPrograms, population, generation, fitnesses,
                   next_generation, shapes_from, child, mutated>>
    /\ UNCHANGED finalVars

\* line 202
Crossover ==
    /\ pc = "crossover"
    /\ \E k1 \in 0..NumShapes(heap[parent1]), k2 \in 0..NumShapes(heap[parent2]),
          coin \in RandomDraws :
          LET call == crossover(heap, parent1, parent2, k1, k2, coin)
          IN  /\ heap' = call.heap
              /\ child' = call.ret
              /\ shapes_from' = <<k1, k2>>
    /\ parent1' = 0 /\ parent2' = 0
    /\ sample' = <<>>
    /\ pc' = "mutate"
    /\ UNCHANGED <<artConfig, otherPrograms, population, generation, fitnesses,
                   next_generation, mutated>>
    /\ UNCHANGED <<canvas, evaluations, final_fitnesses, best_artwork_index, output>>

\* the call of mutate in line 205, for one of the given draws
MutateWith(drawVectors) ==
    /\ pc = "mutate"
    /\ \E draws \in drawVectors :
          LET call == mutate(heap, child, draws, MUTATION_RATE)
          IN  /\ heap' = call.heap
              /\ mutated' = call.ret
    /\ shapes_from' = <<0, 0>>
    /\ pc' = "append"
    /\ UNCHANGED <<artConfig, otherPrograms, population, generation, fitnesses,
                   next_generation, parent1, parent2, child>>
    /\ UNCHANGED finalVars

\* in the run, only the first MutableGenes genes draw something else than the
\* default
Mutate ==
    MutateWith(DrawVectors(Len(heap[child]), MaxDraws, MutableGenes))

\* the assignment of line 205 and line 207: nothing refers to the list that
\* crossover returned any more
AppendChild ==
    /\ pc = "append"
    /\ next_generation' = Append(next_generation, mutated)
    /\ heap' = Collect(heap, Range(population) \cup Range(next_generation'))
    /\ child' = 0 /\ mutated' = 0
    /\ pc' = "fill"
    /\ UNCHANGED <<artConfig, otherPrograms, population, generation, fitnesses,
                   parent1, parent2, shapes_from>>
    /\ UNCHANGED finalVars

\* line 197 false, line 209, and the assignment of line 239: nothing refers
\* to the old population list any more
EvolveReturn ==
    /\ pc = "fill"
    /\ ~FillMore(next_generation, population)
    /\ population' = next_generation
    /\ heap' = Collect(heap, Range(next_generation))
    /\ generation' = generation + 1
    /\ fitnesses' = <<>>
    /\ next_generation' = <<>>
    /\ pc' = "loop"
    /\ UNCHANGED <<artConfig, otherPrograms, parent1, parent2, shapes_from, child,
                   mutated>>
    /\ UNCHANGED finalVars

\* the loop of line 237 is over
LoopEnd ==
    /\ pc = "loop"
    /\ ~MoreGenerations(generation)
    /\ pc' = "final"
    /\ UNCHANGED <<heap, artConfig, otherPrograms, population, generation, fitnesses,
                   next_generation, parent1, parent2, shapes_from, child, mutated>>
    /\ UNCHANGED finalVars

\* lines 243-245: the final evaluation and the choice of the best artwork
FinalEvaluate ==
    /\ pc = "final"
    /\ IF \E i \in DOMAIN population :
             EvaluateFails(heap[population[i]], canvas, strict)
       THEN /\ pc' = Raised
            /\ UNCHANGED <<evaluations, final_fitnesses, best_artwork_index>>
       ELSE /\ evaluations' = evaluations + 1
            /\ final_fitnesses' = [i \in DOMAIN population |->
                                      calculate_fitness(heap[population[i]])]
            /\ best_artwork_index' =
                  ListIndex(final_fitnesses', ListMax(final_fitnesses'))
            /\ pc' = "render"
    /\ UNCHANGED <<heap, artConfig, otherPrograms, population, generation, fitnesses,
                   next_generation, parent1, parent2, shapes_from, child, mutated>>
    /\ UNCHANGED <<canvas, sample, output>>

\* line 247: render_artwork(best_gene_set, "final_abstract_art.png")
RenderArtwork ==
    /\ pc = "render"
    /\ LET best_gene_set == heap[At(population, best_artwork_index)]
       IN  IF ImageNewFails(canvas) \/ RenderFails(best_gene_set, strict)
           THEN /\ pc' = Raised
                /\ UNCHANGED output
           ELSE /\ output' = Append(output, render_artwork(best_gene_set))
                /\ pc' = "done"
    /\ UNCHANGED <<heap, artConfig, otherPrograms, population, generation, fitnesses,
                   next_generation, parent1, parent2, shapes_from, child, mutated>>
    /\ UNCHANGED <<canvas, evaluations, sample, final_fitnesses,
                   best_artwork_index>>

Next ==
    \/ CreateInitialPopulation
    \/ EvolveBegin
    \/ SelectParents
    \/ Crossover
    \/ Mutate
    \/ AppendChild
    \/ EvolveReturn
    \/ LoopEnd
    \/ FinalEvaluate
    \/ RenderArtwork

Spec == Init /\ [][Next]_vars

----------------------------------------------------------------------------
(* crossover and mutate on their own: the parents are any two individuals  *)
(* of up to MaxInitialShapes + 1 shapes, the rate is 0.0, 0.1 or 1.0.      *)

InitOps ==
    /\ \E g1, g2 \in UNION {Individuals(n) : n \in 1..(MaxInitialShapes + 1)} :
          heap = <<g1, g2>>
    /\ MUTATION_RATE \in Rates
    /\ strict = FALSE
    /\ pc = "crossover"
    /\ population = <<>>
    /\ generation = 0
    /\ fitnesses = <<>>
    /\ next_generation = <<>>
    /\ parent1 = 1 /\ parent2 = 2 /\ child = 0 /\ mutated = 0
    /\ shapes_from = <<0, 0>>
    /\ canvas = <<IMAGE_WIDTH, IMAGE_HEIGHT>>
    /\ evaluations = 0
    /\ sample = <<>>
    /\ final_fitnesses = <<>>
    /\ best_artwork_index = 0
    /\ output = <<>>
    /\ NUM_INITIAL_SHAPES = Len(population)
    /\ OthersStart

\* any gene draws something else than the default
MutateAnyGene ==
    MutateWith(DrawVectors(Len(heap[child]), MaxDraws, Len(heap[child])))

NextOps == Crossover \/ MutateAnyGene

SpecOps == InitOps /\ [][NextOps]_vars

----------------------------------------------------------------------------
(* select_parents on its own, one tournament per step: the population is   *)
(* any initial one that is large enough for a sample, evolve_population has *)
(* evaluated it and taken the elites.                                      *)

InitSelect ==
    /\ \E size \in tournament_size..MaxSelectPopulation :
          \E individuals \in [1..size -> InitialIndividuals] :
             /\ heap = individuals
             /\ population = [i \in 1..size |-> i]
    /\ fitnesses = [i \in DOMAIN population |-> calculate_fitness(heap[population[i]])]
    /\ next_generation = Elites(population, fitnesses)
    /\ MUTATION_RATE = MUTATION_RATE_CONFIG
    /\ strict = FALSE
    /\ pc = "fill"
    /\ generation = 0
    /\ parent1 = 0 /\ parent2 = 0 /\ child = 0 /\ mutated = 0
    /\ shapes_from = <<0, 0>>
    /\ canvas = <<IMAGE_WIDTH, IMAGE_HEIGHT>>
    /\ evaluations = 1
    /\ sample = <<>>
    /\ final_fitnesses = <<>>
    /\ best_artwork_index = 0
    /\ output = <<>>
    /\ NUM_INITIAL_SHAPES = Len(population)
    /\ OthersStart

\* line 106
DrawFirstSample ==
    /\ pc = "fill"
    /\ FillMore(next_generation, population)
    /\ sample' \in DistinctSamples(Len(population), tournament_size)
    /\ pc' = "first"
    /\ UNCHANGED <<heap, artConfig, otherPrograms, population, generation, fitnesses,
                   next_generation, parent1, parent2, shapes_from, child, mutated>>
    /\ UNCHANGED <<canvas, evaluations, final_fitnesses, best_artwork_index, output>>

\* lines 107-111; the first sample is not read again, line 113 replaces it
FirstTournament ==
    /\ pc = "first"
    /\ parent1' = At(population, Tournament(fitnesses, sample))
    /\ sample' = <<>>
    /\ pc' = "second"
    /\ UNCHANGED <<heap, artConfig, otherPrograms, population, generation, fitnesses,
                   next_generation, parent2, shapes_from, child, mutated>>
    /\ UNCHANGED <<canvas, evaluations, final_fitnesses, best_artwork_index, output>>

\* line 113
DrawSecondSample ==
    /\ pc = "second"
    /\ sample' \in DistinctSamples(Len(population), tournament_size)
    /\ pc' = "drawn"
    /\ UNCHANGED <<heap, artConfig, otherPrograms, population, generation, fitnesses,
                   next_generation, parent1, parent2, shapes_from, child, mutated>>
    /\ UNCHANGED <<canvas, evaluations, final_fitnesses, best_artwork_index, output>>

\* lines 114-120
SecondTournament ==
    /\ pc = "drawn"
    /\ parent2' = At(population, Tournament(fitnesses, sample))
    /\ pc' = "crossover"
    /\ UNCHANGED <<heap, artConfig, otherPrograms, population, generation, fitnesses,
                   next_generation, parent1, shapes_from, child, mutated, sample>>
    /\ UNCHANGED <<canvas, evaluations, final_fitnesses, best_artwork_index, output>>

NextSelect ==
    \/ DrawFirstSample
    \/ FirstTournament
    \/ DrawSecondSample
    \/ SecondTournament

SpecSelect == InitSelect /\ [][NextSelect]_vars

----------------------------------------------------------------------------
(* The final step on its own: the loop of line 237 has left any population *)
(* of genomes that crossover and mutate can make of these shapes.          *)

Black == <<0, 0, 0>>

\* a point, the whole canvas outlined black and outlined white, the canvas
\* from x = 1 on, and a shape whose x0 mutate raised above its x1
FinalGenes ==
    {create_random_gene(0, 0, 0, 0, White, Black),
     create_random_gene(0, 0, IMAGE_WIDTH, IMAGE_HEIGHT, White, Black),
     create_random_gene(0, 0, IMAGE_WIDTH, IMAGE_HEIGHT, White, White),
     create_random_gene(1, 0, IMAGE_WIDTH, IMAGE_HEIGHT, White, Black),
     create_random_gene(1, 0, 0, 0, White, Black)}

FinalIndividuals ==
    UNION {IndividualsOf(n, FinalGenes) : n \in 1..(MaxInitialShapes + 1)}

InitFinal ==
    /\ \E size \in 1..MaxFinalPopulation :
          \E individuals \in [1..size -> FinalIndividuals] :
             /\ heap = individuals
             /\ population = [i \in 1..size |-> i]
    /\ MUTATION_RATE = MUTATION_RATE_CONFIG
    /\ strict \in BOOLEAN
    /\ pc = "loop"
    /\ generation = NUM_GENERATIONS
    /\ fitnesses = <<>>
    /\ next_generation = <<>>
    /\ parent1 = 0 /\ parent2 = 0 /\ child = 0 /\ mutated = 0
    /\ shapes_from = <<0, 0>>
    /\ canvas = <<IMAGE_WIDTH, IMAGE_HEIGHT>>
    /\ evaluations = NUM_GENERATIONS
    /\ sample = <<>>
    /\ final_fitnesses = <<>>
    /\ best_artwork_index = 0
    /\ output = <<>>
    /\ NUM_INITIAL_SHAPES = Len(population)
    /\ OthersStart

NextFinal == LoopEnd \/ FinalEvaluate \/ RenderArtwork

SpecFinal == InitFinal /\ [][NextFinal]_vars

----------------------------------------------------------------------------
(* The start of a run whose configured canvas has a width or a height that *)
(* is not positive.                                                        *)

NonPositiveCanvases ==
    {c \in ((-1)..IMAGE_WIDTH) \X ((-1)..IMAGE_HEIGHT) : c[1] <= 0 \/ c[2] <= 0}

InitCanvas ==
    /\ canvas \in NonPositiveCanvases
    /\ heap = <<>>
    /\ MUTATION_RATE = MUTATION_RATE_CONFIG
    /\ strict \in BOOLEAN
    /\ pc = "start"
    /\ population = <<>>
    /\ generation = 0
    /\ fitnesses = <<>>
    /\ next_generation = <<>>
    /\ parent1 = 0 /\ parent2 = 0 /\ child = 0 /\ mutated = 0
    /\ shapes_from = <<0, 0>>
    /\ evaluations = 0
    /\ sample = <<>>
    /\ final_fitnesses = <<>>
    /\ best_artwork_index = 0
    /\ output = <<>>
    /\ NUM_INITIAL_SHAPES \in 1..MaxPopulation
    /\ OthersStart

NextCanvas == CreateInitialPopulation \/ EvolveBegin

SpecCanvas == InitCanvas /\ [][NextCanvas]_vars

----------------------------------------------------------------------------
(* create_initial_population on its own: any requested size up to          *)
(* MaxCreatePopulation, the shapes anywhere on the canvas, filled and      *)
(* outlined in black or white.                                             *)

CreationGenesOn(c) ==
    {g \in RandomGenesOn(c) :
        /\ SubSeq(g, 5, 7) \in {White, Black}
        /\ SubSeq(g, 8, 10) \in {White, Black}}

InitCreate ==
    /\ heap = <<>>
    /\ MUTATION_RATE = MUTATION_RATE_CONFIG
    /\ strict = FALSE
    /\ pc = "start"
    /\ population = <<>>
    /\ generation = 0
    /\ fitnesses = <<>>
    /\ next_generation = <<>>
    /\ parent1 = 0 /\ parent2 = 0 /\ child = 0 /\ mutated = 0
    /\ shapes_from = <<0, 0>>
    /\ canvas = <<IMAGE_WIDTH, IMAGE_HEIGHT>>
    /\ evaluations = 0
    /\ sample = <<>>
    /\ final_fitnesses = <<>>
    /\ best_artwork_index = 0
    /\ output = <<>>
    /\ NUM_INITIAL_SHAPES \in 0..MaxCreatePopulation
    /\ OthersStart

CreateAnyPopulation ==
    CreateWith(UNION {IndividualsOf(n, CreationGenesOn(canvas)) :
                         n \in MinInitialShapes..MaxInitialShapes})

SpecCreate == InitCreate /\ [][CreateAnyPopulation]_vars

----------------------------------------------------------------------------
(* Properties *)

WellFormedShape(rect) ==
    /\ 0 <= At(rect, 0) /\ At(rect, 0) <= At(rect, 2) /\ At(rect, 2) <= IMAGE_WIDTH
    /\ 0 <= At(rect, 1) /\ At(rect, 1) <= At(rect, 3) /\ At(rect, 3) <= IMAGE_HEIGHT

WellFormed(g) == \A s \in 1..NumShapes(g) : WellFormedShape(Shape(g, s))

SetMax(S) == CHOOSE m \in S : \A x \in S : x <= m

\* the first k shapes of g, as the claims word it
FirstShapes(g, k) == [i \in 1..(GenesPerShape * k) |-> g[i]]

\* C1: every shape of every genome that creation, crossover or mutate
\* produced has 0 <= x0 <= x1 <= IMAGE_WIDTH and 0 <= y0 <= y1 <= IMAGE_HEIGHT.
C1_EveryShapeOrdered ==
    \A id \in DOMAIN heap : WellFormed(heap[id])

\* C2: the population evolve_population returns has the size of the one it
\* was given.
C2_SizeKept ==
    [][pc = "fill" /\ pc' = "loop" => Len(population') = Len(population)]_vars

C2_Witness ==
    /\ pc = "loop" /\ generation >= 1
    /\ Len(population) >= tournament_size
    /\ Len(population) >= ELITISM_COUNT

\* C3: the best fitness of the population evolve_population returns is at
\* least the best fitness of the population it was given (whenever the
\* returned population can be rendered at all).
C3_BestFitnessKept ==
    [][(/\ pc = "fill" /\ pc' = "loop"
        /\ \A i \in DOMAIN population' : ~RenderFails(heap'[population'[i]], strict))
       => SetMax({calculate_fitness(heap'[population'[i]]) : i \in DOMAIN population'})
            >= SetMax(Range(fitnesses))]_vars

\* every child scores below the best of the generation before: only the
\* elites keep the best fitness
C3_Witness ==
    /\ pc = "loop" /\ generation >= 1 /\ ELITISM_COUNT >= 1
    /\ Len(population) > ELITISM_COUNT
    /\ \A i \in DOMAIN population :
         i > ELITISM_COUNT =>
            calculate_fitness(heap[population[i]])
              < calculate_fitness(heap[population[1]])

\* C4: at rate 1.0 mutate returns a genome whose coordinates are all within
\* the canvas and whose shapes all have x1 >= x0 and y1 >= y0, for a
\* well-formed input of any number of shapes.
C4_FullRateWellFormed ==
    (pc = "append" /\ MUTATION_RATE = 10 /\ WellFormed(heap[child]))
        => WellFormed(heap[mutated])

\* the value the claim gives coordinate i of a shape: old plus delta, clamped
\* to the canvas, x1 / y1 raised to the shape's new x0 / y0
ClaimedCoordinate(old, delta, i, new) ==
    LET c == i % GenesPerShape
        limit == IF c = 0 \/ c = 2 THEN IMAGE_WIDTH ELSE IMAGE_HEIGHT
        clamped == Min(limit, Max(0, old + delta))
    IN  IF c >= 2 THEN Max(At(new, i - 2), clamped) ELSE clamped

\* C5: a coordinate gene of any shape that mutate changed is the old value
\* plus a delta in -MaxChange..MaxChange, clamped (x1 / y1 raised to x0 / y0);
\* a colour gene it changed is a value of 0..MaxColor.
C5_CoordinatesMoveByDelta ==
    [][pc = "mutate" =>
        LET old == heap[child]
            new == heap'[mutated']
        IN  \A i \in 0..(Len(old) - 1) :
              At(new, i) # At(old, i) =>
                IF i % GenesPerShape < 4
                THEN \E delta \in (-MaxChange)..MaxChange :
                        At(new, i) = ClaimedCoordinate(At(old, i), delta, i, new)
                ELSE At(new, i) \in 0..MaxColor]_vars

\* C6: the length of every genome is a multiple of 10; crossover takes whole
\* shapes of each parent and mutate keeps the length of its input.
C6_WholeShapes ==
    /\ \A id \in DOMAIN heap : Len(heap[id]) % GenesPerShape = 0
    /\ pc = "append" => Len(heap[mutated]) = Len(heap[child])

C6_Witness ==
    /\ pc = "append" /\ NumShapes(heap[mutated]) >= 2
    /\ heap[mutated] # heap[child]

\* C7: crossover of two non-empty parents returns a non-empty genome.
C7_ChildNotEmpty ==
    pc = "mutate" => Len(heap[child]) >= GenesPerShape

C7_Witness ==
    pc = "mutate" /\ shapes_from = <<0, 0>>

C9_ZeroRateIdentity ==
    [][pc = "mutate" /\ MUTATION_RATE = 0 => heap'[mutated'] = heap[child]]_vars

\* mutate returned, at rate 0.0, for a genome of two or more shapes
C9_Witness ==
    /\ pc = "append" /\ MUTATION_RATE = 0 /\ NumShapes(heap[mutated]) >= 2

\* C10: no step of select_parents, crossover, mutate or evolve_population
\* changes a list that existed before it, and `population` is only ever
\* assigned by main.
C10_InputsUntouched ==
    [][/\ \A id \in DOMAIN heap \cap DOMAIN heap' : heap'[id] = heap[id]
       /\ pc \in {"crossover", "mutate"} => DOMAIN heap \subseteq DOMAIN heap'
       /\ (pc # "start" /\ pc' # "loop") => population' = population]_vars

\* mutate returned a list that differs from its argument
C10_Witness ==
    /\ pc = "append" /\ Len(population) >= tournament_size
    /\ heap[mutated] # heap[child]

\* C11: no genome of the population evolve_population returns, the elites
\* included, is an object of the population it was given, and no object
\* occurs twice in the returned population.
C11_NoSharedGenome ==
    [][pc = "fill" /\ pc' = "loop" =>
        /\ Range(population') \cap Range(population) = {}
        /\ \A i, j \in DOMAIN population' :
              population'[i] = population'[j] => i = j]_vars

\* C12: a run whose population is large enough for elitism and for the
\* tournaments never ends in an exception, and when it is done it has
\* written exactly one image.
C12_RunReachesDone ==
    Len(population) >= tournament_size =>
        /\ pc # "failed"
        /\ pc = "done" => Len(output) = 1

\* C13: the genome rendered as the final output is the one of the final
\* population whose fitness is the maximum, the first in population order
\* among those that reach it.
C13_BestIsRendered ==
    pc \in {"render", "done"} =>
        LET b == best_artwork_index + 1
            score(i) == calculate_fitness(heap[population[i]])
        IN  /\ b \in DOMAIN population
            /\ \A j \in DOMAIN population : score(j) <= score(b)
            /\ \A j \in 1..(b - 1) : score(j) < score(b)
            /\ pc = "done" => output = <<render_artwork(heap[population[b]])>>

\* the best fitness is reached twice, and not by the first genome
C13_Witness ==
    /\ pc = "done" /\ best_artwork_index > 0
    /\ \E j \in DOMAIN population :
          /\ j > best_artwork_index + 1
          /\ final_fitnesses[j] = final_fitnesses[best_artwork_index + 1]

\* C14: the k-th entry of the population evolve_population returns, for k up
\* to ELITISM_COUNT, is the genome of the given population that exactly k - 1
\* genomes precede in the order "higher fitness first, earlier in the
\* population first among equals", with its content unchanged.
C14_ElitesFirst ==
    [][pc = "fill" /\ pc' = "loop" =>
        LET score(i) == calculate_fitness(heap[population[i]])
            Precedes(j, i) == score(j) > score(i) \/ (score(j) = score(i) /\ j < i)
        IN  \A k \in 1..ELITISM_COUNT :
              \E i \in DOMAIN population :
                 /\ population'[k] = population[i]
                 /\ heap'[population'[k]] = heap[population[i]]
                 /\ Cardinality({j \in DOMAIN population : Precedes(j, i)}) = k - 1]_vars

\* evolve_population is about to return; three genomes of the given
\* population tie for the best fitness and a worse one stands before them
C14_Witness ==
    /\ pc = "fill" /\ ~FillMore(next_generation, population)
    /\ Len(population) >= 4
    /\ fitnesses[1] < fitnesses[2]
    /\ fitnesses[2] = fitnesses[3] /\ fitnesses[3] = fitnesses[4]
    /\ \A i \in DOMAIN fitnesses : fitnesses[i] <= fitnesses[2]

\* the index of the sample that the claim makes the winner: the first one in
\* drawing order whose fitness no other index of the sample exceeds
FirstBestOfSample(fit, smp) ==
    smp[CHOOSE k \in DOMAIN smp :
            /\ \A m \in DOMAIN smp : At(fit, smp[m]) <= At(fit, smp[k])
            /\ \A m \in 1..(k - 1) : At(fit, smp[m]) < At(fit, smp[k])]

SampleOfFive(smp, n) ==
    /\ Len(smp) = 5
    /\ \A k \in DOMAIN smp : smp[k] \in 0..(n - 1)
    /\ \A k, m \in DOMAIN smp : smp[k] = smp[m] => k = m

\* C15: each parent select_parents returns is the genome of highest fitness
\* among a sample of exactly 5 pairwise distinct population indices, the
\* index drawn first winning a tie.
C15_TournamentWinner ==
    [][/\ pc = "first" =>
            /\ SampleOfFive(sample, Len(population))
            /\ parent1' = At(population, FirstBestOfSample(fitnesses, sample))
       /\ pc = "drawn" =>
            /\ SampleOfFive(sample, Len(population))
            /\ parent2' = At(population, FirstBestOfSample(fitnesses, sample))]_vars

\* both tournaments chose the same genome, the second one on a tie between
\* the index drawn first and the one drawn last
C15_Witness ==
    /\ pc = "crossover" /\ sample # <<>>
    /\ Len(population) > tournament_size
    /\ parent1 = parent2
    /\ At(fitnesses, sample[1]) = At(fitnesses, sample[5])
    /\ parent2 = At(population, sample[1])
    /\ \E k \in DOMAIN sample : At(fitnesses, sample[k]) < At(fitnesses, sample[1])

\* where the controller stands: the generations completed, the populations
\* evaluated and the fitnesses computed
ControllerInStep ==
    /\ generation \in 0..NUM_GENERATIONS
    /\ pc = "start" => generation = 0 /\ evaluations = 0
    /\ pc = "loop" => evaluations = generation
    /\ pc \in {"fill", "crossover", "mutate", "append"} =>
          /\ generation < NUM_GENERATIONS
          /\ evaluations = generation + 1
          /\ Len(fitnesses) = Len(population)
    /\ pc = "final" => generation = NUM_GENERATIONS /\ evaluations = NUM_GENERATIONS
    /\ pc \in {"render", "done"} =>
          /\ generation = NUM_GENERATIONS
          /\ evaluations = NUM_GENERATIONS + 1
          /\ Len(final_fitnesses) = Len(population)
    /\ \A i, j \in DOMAIN population : population[i] = population[j] => i = j

C17_RejectedBeforeGenerations ==
    [][/\ evaluations' = 0 /\ generation' = 0 /\ output' = <<>>
       /\ pc' \in {"start", "loop", "failed"}
       /\ pc' = "failed" => pc = "start"]_vars

\* C18: once a step has raised, no step follows, and an image is written
\* only by the final step, after NUM_GENERATIONS generations, and only once.
C18_FailureAborts ==
    [][/\ pc # "failed"
       /\ output' # output =>
            /\ pc = "render" /\ pc' = "done"
            /\ generation = NUM_GENERATIONS
            /\ output = <<>> /\ Len(output') = 1]_vars

\* the selection of the first generation raised: the run stopped there
\* without an image
C18_Witness ==
    /\ pc = "failed" /\ generation = 0 /\ evaluations = 1
    /\ Len(population) >= ELITISM_COUNT
    /\ output = <<>>

\* the image calculate_fitness scores
ScoredImage(gene_set) ==
    [p \in (0..(IMAGE_WIDTH - 1)) \X (0..(IMAGE_HEIGHT - 1)) |->
        Pixel(gene_set, p[1], p[2])]

\* C19: the image render_artwork writes for the chosen genome is, pixel for
\* pixel, the image calculate_fitness rendered to score it.
C19_SameImage ==
    pc = "done" =>
        /\ output = <<ScoredImage(heap[At(population, best_artwork_index)])>>
        /\ Cardinality(Range(output[1])) * 5 * (IMAGE_WIDTH * IMAGE_HEIGHT)
           + Min(TotalShapeArea(heap[At(population, best_artwork_index)],
                                NumShapes(heap[At(population, best_artwork_index)])),
                 IMAGE_WIDTH * IMAGE_HEIGHT) * 50
           = final_fitnesses[best_artwork_index + 1]

\* the written genome has two shapes that overlap in a pixel they paint
\* differently
C19_Witness ==
    /\ pc = "done"
    /\ LET g == heap[At(population, best_artwork_index)]
       IN  /\ NumShapes(g) = 2
           /\ \E p \in DOMAIN output[1] :
                 /\ InBox(Shape(g, 1), p[1], p[2]) /\ InBox(Shape(g, 2), p[1], p[2])
                 /\ Paint(Shape(g, 1), p[1], p[2]) # Paint(Shape(g, 2), p[1], p[2])

\* S of the claim: the sum over the shapes of |x1 - x0| * |y1 - y0|
RECURSIVE SumOfShapeAreas(_)
SumOfShapeAreas(g) ==
    IF g = <<>> THEN 0
    ELSE Abs(g[3] - g[1]) * Abs(g[4] - g[2])
         + SumOfShapeAreas(SubSeq(g, GenesPerShape + 1, Len(g)))

\* C20: the fitness is 5 per distinct pixel colour plus the coverage term
\* 50 * min(S / (IMAGE_WIDTH * IMAGE_HEIGHT), 1); the term lies in 0..50 and
\* is 50 whenever S >= IMAGE_WIDTH * IMAGE_HEIGHT (all times the canvas area).
C20_FitnessFormula ==
    pc \in {"render", "done"} =>
        \A i \in DOMAIN population :
            LET g == heap[population[i]]
                area == IMAGE_WIDTH * IMAGE_HEIGHT
                colours == {render_artwork(g)[p] : p \in DOMAIN render_artwork(g)}
                coverage == final_fitnesses[i] - 5 * area * Cardinality(colours)
            IN  /\ coverage \in 0..(50 * area)
                /\ SumOfShapeAreas(g) >= area => coverage = 50 * area
                /\ SumOfShapeAreas(g) < area => coverage = 50 * SumOfShapeAreas(g)

\* two shapes on the same part of the canvas: their areas add up to the
\* canvas area, and a pixel outside them stays white
C20_Witness ==
    /\ pc = "render"
    /\ \E i \in DOMAIN population :
          LET g == heap[population[i]]
          IN  /\ NumShapes(g) = 2 /\ Shape(g, 1) = Shape(g, 2)
              /\ SumOfShapeAreas(g) >= IMAGE_WIDTH * IMAGE_HEIGHT
              /\ \E p \in DOMAIN render_artwork(g) :
                    ~InBox(Shape(g, 1), p[1], p[2])

\* C21: in the initial population every genome is a whole number of shapes,
\* between the least and the greatest number an individual is given; every
\* shape has 0 <= x0 <= x1 <= IMAGE_WIDTH and 0 <= y0 <= y1 <= IMAGE_HEIGHT
\* and colour components within the colour range; and the population has
\* exactly the size that was asked for.
C21_InitialPopulationInBounds ==
    pc = "loop" =>
        /\ Len(population) = NUM_INITIAL_SHAPES
        /\ \A i \in DOMAIN population :
              LET g == heap[population[i]]
              IN  /\ Len(g) = GenesPerShape * NumShapes(g)
                  /\ NumShapes(g) \in MinInitialShapes..MaxInitialShapes
                  /\ WellFormed(g)
                  /\ \A s \in 1..NumShapes(g) : \A k \in 4..9 :
                        At(Shape(g, s), k) \in 0..MaxColor

\* a population of the greatest size asked for, with a shape that is the
\* far corner of the canvas and a shape that spans it
C21_Witness ==
    /\ pc = "loop" /\ generation = 0
    /\ Len(population) = MaxCreatePopulation
    /\ \E i, j \in DOMAIN population :
          /\ SubSeq(heap[population[i]], 1, 4) =
                <<IMAGE_WIDTH, IMAGE_HEIGHT, IMAGE_WIDTH, IMAGE_HEIGHT>>
          /\ SubSeq(heap[population[j]], 1, 4) = <<0, 0, IMAGE_WIDTH, IMAGE_HEIGHT>>

\* C22: a call of evolve_population on a population of N genomes that can
\* all be evaluated raises in the elitism step when N < ELITISM_COUNT, raises
\* in select_parents, where the sample cannot be drawn, when
\* ELITISM_COUNT < N < tournament_size, and raises nowhere else: it returns
\* only for N = ELITISM_COUNT or N >= tournament_size.
C22_SizesThatReturn ==
    [][LET N == Len(population)
           evaluated == \A i \in DOMAIN population :
                           ~EvaluateFails(heap[population[i]], canvas, strict)
       IN  /\ (pc = "loop" /\ MoreGenerations(generation) /\ evaluated) =>
                 (pc' = "failed" <=> N < ELITISM_COUNT)
           /\ (pc = "fill" /\ FillMore(next_generation, population)) =>
                 (pc' = "failed" <=> (ELITISM_COUNT < N /\ N < tournament_size))
           /\ generation' = generation + 1 =>
                 (N = ELITISM_COUNT \/ N >= tournament_size)]_vars

\* the sample could not be drawn: the call raised after elitism
C22_WitnessNoSample ==
    /\ pc = "failed" /\ generation = 0
    /\ Len(population) = tournament_size - 1
    /\ Len(next_generation) = ELITISM_COUNT

\* the shape counts of the genomes of a population
ShapeCounts(h, pop) == {NumShapes(h[pop[i]]) : i \in DOMAIN pop}

\* C23: the child crossover returns has at least one shape and at most as
\* many as its two parents together, and mutate keeps the number of genes;
\* so in the population evolve_population returns every genome has at least
\* one shape and at most twice the greatest number of shapes of the
\* population it was given.  Nothing caps the number at the greatest number
\* an initial individual is given: it can double in one generation.
C23_ShapeCountAtMostDoubles ==
    [][/\ pc = "crossover" =>
            /\ NumShapes(heap'[child']) >= 1
            /\ NumShapes(heap'[child']) <=
                  NumShapes(heap[parent1]) + NumShapes(heap[parent2])
       /\ pc = "mutate" => Len(heap'[mutated']) = Len(heap[child])
       /\ generation' = generation + 1 =>
            \A n \in ShapeCounts(heap', population') :
                n >= 1 /\ n <= 2 * SetMax(ShapeCounts(heap, population))]_vars

\* after one generation a genome has twice the greatest number of shapes of
\* an initial individual
C23_WitnessDoubled ==
    /\ pc = "loop" /\ generation = 1
    /\ 2 * MaxInitialShapes \in ShapeCounts(heap, population)

\* r is the line without the whitespace around it
IsStripOf(r, line) ==
    /\ \E i \in 1..(Len(line) + 1), j \in 0..Len(line) :
          /\ r = SubSeq(line, i, j)
          /\ \A k \in DOMAIN line : (k < i \/ k > j) => IsSpace(line[k])
    /\ r # <<>> => (~IsSpace(r[1]) /\ ~IsSpace(r[Len(r)]))

\* the command a typed line stands for: lowercased, nothing around it
IsCommandOf(command, line) == IsStripOf(command, Lower(line))

\* C24: the pet's hunger and energy stay within 0..10.  A turn with a known
\* command applies that command's change and stops at the bounds: play is
\* hunger + 1 and energy - 2, eat is hunger - 3 and energy + 1, sleep is
\* energy + 4 with the hunger kept.  A turn with a command that is unknown,
\* or that the pet has learned, leaves hunger, energy and mood as they were.
C24_PetStateInRange ==
    [][LET pet == pet_state
           after == pet_state'
           stands(command) == IsCommandOf(command, pet_typed'[1])
       IN  /\ pet.hunger \in 0..10 /\ pet.energy \in 0..10
           /\ after.hunger \in 0..10 /\ after.energy \in 0..10
           /\ stands(str_play) =>
                /\ after.hunger = (IF pet.hunger + 1 > 10 THEN 10 ELSE pet.hunger + 1)
                /\ after.energy = (IF pet.energy - 2 < 0 THEN 0 ELSE pet.energy - 2)
           /\ stands(str_eat) =>
                /\ after.hunger = (IF pet.hunger - 3 < 0 THEN 0 ELSE pet.hunger - 3)
                /\ after.energy = (IF pet.energy + 1 > 10 THEN 10 ELSE pet.energy + 1)
           /\ stands(str_sleep) =>
                /\ after.hunger = pet.hunger
                /\ after.energy = (IF pet.energy + 4 > 10 THEN 10 ELSE pet.energy + 4)
           /\ (\A command \in DOMAIN KnownCommandsAtStart : ~stands(command)) =>
                after = pet]_vars

\* play has stopped at both bounds
C24_WitnessSaturated ==
    /\ pet_state.hunger = 10 /\ pet_state.energy = 0
    /\ pet_state.mood = "excited"
    /\ IsCommandOf(str_play, pet_typed[1])

\* a learned command was typed again and changed nothing
C24_WitnessLearned ==
    /\ pet_typed[2] = NoLine
    /\ \E command \in DOMAIN known_commands \ DOMAIN KnownCommandsAtStart :
          IsCommandOf(command, pet_typed[1])
    /\ pet_state.mood = "sleepy"

\* C25: the knowledge base only grows and no entry is ever rewritten.  A
\* turn with an unknown command and a response that is not empty adds the
\* command with exactly that response; with an empty response, or with a
\* known command, the knowledge base stays as it is.  A line that stands for
\* quit ends game_loop: it is not processed, nothing is learned, no turn
\* follows.
C25_KnowledgeOnlyGrows ==
    [][LET typed == pet_typed'[1]
           line == pet_typed'[2]
           quits == IsCommandOf(str_quit, typed)
           known == \E command \in DOMAIN known_commands : IsCommandOf(command, typed)
       IN  /\ game = "running"
           /\ \A command \in DOMAIN known_commands :
                /\ command \in DOMAIN known_commands'
                /\ known_commands'[command] = known_commands[command]
           /\ quits <=> game' = "ended"
           /\ quits => (line = NoLine /\ UNCHANGED <<pet_state, known_commands>>)
           /\ (~quits /\ known) => (line = NoLine /\ known_commands' = known_commands)
           /\ (~quits /\ ~known) =>
                /\ line # NoLine
                /\ IF IsStripOf(<<>>, line)
                   THEN known_commands' = known_commands
                   ELSE \E command \in DOMAIN known_commands' :
                          /\ DOMAIN known_commands' = DOMAIN known_commands \cup {command}
                          /\ IsCommandOf(command, typed)
                          /\ IsStripOf(known_commands'[command], line)]_vars

\* the pet has just learned dance, typed with a capital and blanks around
\* the response
C25_WitnessLearned ==
    /\ pet_typed = <<<<" ", "D", "a", "n", "c", "e">>, <<" ", "s", "p", "i", "n", " ">>>>
    /\ known_commands[<<"d", "a", "n", "c", "e">>] = <<"s", "p", "i", "n">>
    /\ game = "running"

\* C26: once the chatbot has been taught a response to an input, a later
\* message with that input, in any case, makes it print exactly the stored
\* response, without asking again, and no stored response is ever replaced,
\* whatever text was taught.
C26_TaughtOnce ==
    [][LET user_message == chat_typed'[1]
           taught == \E key \in DOMAIN chatbot_knowledge : key = Lower(user_message)
       IN  /\ \A key \in DOMAIN chatbot_knowledge :
                /\ key \in DOMAIN chatbot_knowledge'
                /\ chatbot_knowledge'[key] = chatbot_knowledge[key]
           /\ (taught /\ chat' = "running") =>
                /\ bot_printed' = <<chatbot_knowledge[Lower(user_message)]>>
                /\ chat_typed'[2] = NoLine]_vars

\* the last n elements of a list, all of it when it is shorter
LastOf(list, n) ==
    SubSeq(list, (IF Len(list) > n THEN Len(list) - n ELSE 0) + 1, Len(list))

\* C27: x_data and y_data always have the same length, which is at most
\* MAX_DATA_POINTS, and y_data is the most recent readings, at most
\* MAX_DATA_POINTS of them, in the order they arrived.
C27_RecentReadings ==
    /\ Len(x_data) = Len(y_data)
    /\ Len(y_data) <= MAX_DATA_POINTS
    /\ y_data = LastOf(received, MAX_DATA_POINTS)

\* the buffer is full and its oldest readings are gone: the first reading
\* differs from the oldest one kept
C27_WitnessScrolled ==
    /\ Len(received) >= MAX_DATA_POINTS + 2
    /\ Len(y_data) = MAX_DATA_POINTS
    /\ received[1] # y_data[1]
    /\ y_data[1] # y_data[Len(y_data)]

\* C28: the x values are the sequential indices of the samples: x_data is
\* strictly increasing and its last element is the number of samples
\* received so far minus one, also after the buffer has filled.
C28_SequentialIndices ==
    /\ \A i, j \in DOMAIN x_data : i < j => x_data[i] < x_data[j]
    /\ x_data # <<>> => x_data[Len(x_data)] = Len(received) - 1

\* the sum of the totals of the categories given
RECURSIVE SumOfTotals(_, _)
SumOfTotals(spending, categories) ==
    IF categories = {} THEN Finite(0)
    ELSE LET c == CHOOSE c \in categories : TRUE
         IN  FloatAdd(spending[c], SumOfTotals(spending, categories \ {c}))

\* the summary shows an error message
ShowsError(summary) ==
    /\ Len(summary) = 1
    /\ SubSeq(summary[1], 1, 6) = <<"E", "r", "r", "o", "r", ":">>

\* the amount the summary displays as the total
DisplayedTotal(summary) ==
    LET last == summary[Len(summary)]
    IN  ParseFloat(SubSeq(last, Len(TotalLabel) + 1, Len(last)))

\* C29: a click on Add Expense with an empty category, with an amount that
\* is not a number or with a negative amount shows an error and leaves
\* spending_data and both entry fields as they were; with a valid input it
\* increases the total of exactly that category by the amount, leaves every
\* other total as it was and clears both fields.  So after any sequence of
\* adds every category total is a number that is not negative, and the total
\* the summary displays is the sum of the category totals.
C29_AddExpense ==
    [][LET clicked == summary_text' # summary_text \/ spending_data' # spending_data
           category == category_entry
           amount == ParseFloat(expense_entry)
           valid == /\ ~IsStripOf(<<>>, category)
                    /\ amount.kind \in {"finite", "inf"}
                    /\ amount.hundredths >= 0
       IN  clicked =>
             /\ ~valid =>
                  /\ ShowsError(summary_text')
                  /\ UNCHANGED <<spending_data, expense_entry, category_entry>>
             /\ valid =>
                  /\ \E c \in DOMAIN spending_data' :
                        /\ IsStripOf(c, category)
                        /\ spending_data'[c] = FloatAdd(Spent(spending_data, c), amount)
                        /\ DOMAIN spending_data' = DOMAIN spending_data \cup {c}
                        /\ \A other \in DOMAIN spending_data \ {c} :
                              spending_data'[other] = spending_data[other]
                  /\ expense_entry' = <<>> /\ category_entry' = <<>>
                  /\ DisplayedTotal(summary_text') =
                        SumOfTotals(spending_data', DOMAIN spending_data')
             /\ \A c \in DOMAIN spending_data' :
                  /\ spending_data'[c].kind \in {"finite", "inf"}
                  /\ spending_data'[c].hundredths >= 0]_vars

\* C30: process_data returns a list in ascending order without duplicates
\* that has exactly the elements of its input, it leaves the input list as
\* it was, and applied to its own result it returns that result again.
C30_SortedDistinct ==
    [][calls' = calls + 1 =>
         LET input == IF calls = 0 THEN data ELSE result
         IN  /\ \A i, j \in DOMAIN result' : i < j => result'[i] < result'[j]
             /\ Range(result') = Range(input)
             /\ data' = input
             /\ calls = 1 => result' = result]_vars

\* a list with repeated items, out of order, has been processed
C30_WitnessProcessed ==
    /\ calls = 1
    /\ Len(data) = MaxLen /\ data[1] > data[2]
    /\ Len(result) < Len(data) /\ Len(result) > 1
====
